---- MODULE Spec2Model ----
(***************************************************************************)
(* Model of notion_google_sync.py: the one-way sync of Notion task pages   *)
(* to Google Calendar events.                                              *)
(*                                                                         *)
(* Python values are modelled as follows.  A dict with a "type" key (a     *)
(* Notion property object) is a record; the Python value None is the       *)
(* record None where a dict is expected and the string NoneStr where a     *)
(* string is expected.  An ISO-8601 date string is a record                *)
(* [date |-> day number, time |-> seconds of the day], with time = NoTime  *)
(* when the string has no "T" part.  A datetime is a number of seconds.    *)
(*                                                                         *)
(* The program keeps no state of its own between the iterations of its     *)
(* loop but the fetched list and its position in it.  The model adds       *)
(* observations of it: calls, the remote calls of the last finished        *)
(* iteration in the order they were issued; raised_earlier, whether an     *)
(* upsert or write-back call of an iteration before that one raised in     *)
(* this run; the counters of insert calls per task over all runs; and      *)
(* faults, the number of remote calls that raised so far, which the model  *)
(* bounds by MaxFaults.                                                    *)
(***************************************************************************)
EXTENDS Integers, Sequences, FiniteSets, TLC

VARIABLES db, db0, domains, calendar_map, pc, tasks, idx, calls, raised_earlier, runs,
          now, faults, events, insert_calls, insert_ok, insert_failed, writeback_lost,
          fn, fn_in, fn_out

vars == <<db, db0, domains, calendar_map, pc, tasks, idx, calls, raised_earlier, runs,
          now, faults, events, insert_calls, insert_ok, insert_failed, writeback_lost,
          fn, fn_in, fn_out>>

driver_vars == <<db, db0, domains, calendar_map, pc, tasks, idx, calls, raised_earlier,
                 runs, now, faults, events, insert_calls, insert_ok, insert_failed, writeback_lost>>

fn_vars == <<fn, fn_in, fn_out>>

(***************************************************************************)
(* Bounds of the model.                                                    *)
(***************************************************************************)
NumPages == 2
MaxRuns == 2
MaxFaults == 2
MaxDay == 2

(***************************************************************************)
(* Python values.                                                          *)
(***************************************************************************)
None == [type |-> "None"]
NoneStr == "<None>"
NoTime == -1
SecondsPerDay == 86400
EndOfDay == 86399

Truthy(s) == s # NoneStr /\ s # ""

RECURSIVE Join(_)
Join(parts) == IF parts = <<>> THEN "" ELSE Head(parts) \o Join(Tail(parts))

PropKeys == {"Name", "Title", "Due Date", "Due date", "Due", "Status", "Domain",
             "GCal Event ID", "Google Calendar Event ID", "Last Synced"}

NoProps == [k \in PropKeys |-> None]

\* a or b, for two dicts-or-None: the first that is not None
Or(a, b) == IF a # None THEN a ELSE b

(***************************************************************************)
(* _get_task_properties, one definition per extracted field.               *)
(***************************************************************************)
ExtractName(props) ==
    LET title_prop == Or(props["Name"], props["Title"])
    IN  IF title_prop # None /\ title_prop.type = "title"
        THEN Join(title_prop.title)
        ELSE "Untitled"

\* lines 107-111: the first of the three properties that is there decides
ExtractDue(props) ==
    LET due == Or(Or(props["Due Date"], props["Due date"]), props["Due"])
    IN  IF due # None /\ due.type = "date" /\ due.date # None
        THEN due.date
        ELSE None

\* status_prop.get(status_prop["type"], {}).get("name") raises AttributeError
\* when the value stored under the type key is None.
ExtractRaises(props) ==
    LET status_prop == props["Status"]
    IN  /\ status_prop # None
        /\ status_prop.type \in {"select", "status"}
        /\ status_prop[status_prop.type] = None

ExtractStatus(props) ==
    LET status_prop == props["Status"]
    IN  IF status_prop # None /\ status_prop.type \in {"select", "status"}
        THEN status_prop[status_prop.type].name
        ELSE NoneStr

ExtractDomainId(props) ==
    LET domain_prop == props["Domain"]
    IN  IF domain_prop # None /\ domain_prop.type = "relation"
           /\ domain_prop.relation # <<>>
        THEN Head(domain_prop.relation).id
        ELSE NoneStr

\* Faulty variant of ExtractGcalId: reads the alias key only.
ExtractGcalIdOtherKey(props) ==
    LET gcal_id_prop == props["Google Calendar Event ID"]
    IN  IF gcal_id_prop # None /\ gcal_id_prop.type = "rich_text"
        THEN Join(gcal_id_prop.rich_text)
        ELSE NoneStr

\* lines 127-132
ExtractGcalId(props) ==
    LET gcal_id_prop == Or(props["GCal Event ID"], props["Google Calendar Event ID"])
    IN  IF gcal_id_prop # None /\ gcal_id_prop.type = "rich_text"
        THEN Join(gcal_id_prop.rich_text)
        ELSE NoneStr

_get_task_properties(page) ==
    [name      |-> ExtractName(page.properties),
     due       |-> ExtractDue(page.properties),
     status    |-> ExtractStatus(page.properties),
     domain_id |-> ExtractDomainId(page.properties),
     gcal_id   |-> ExtractGcalId(page.properties)]

(***************************************************************************)
(* _parse_notion_date.                                                     *)
(***************************************************************************)
HasT(s) == s.time # NoTime

\* datetime.fromisoformat of a string with a "T" part
FromIso(s) == s.date * SecondsPerDay + s.time

\* s + "T00:00:00" and s + "T23:59:59"
AppendTime(s, secs) == [date |-> s.date, time |-> secs]

ParseRaises(date_dict) == date_dict.start = None

ParseStart(date_dict) ==
    IF HasT(date_dict.start)
    THEN FromIso(date_dict.start)
    ELSE FromIso(AppendTime(date_dict.start, 0))

\* Faulty variant of ParseEnd: a date-only end taken as midnight.
ParseEndMidnight(date_dict) ==
    IF date_dict.end # None
    THEN IF HasT(date_dict.end)
         THEN FromIso(date_dict.end)
         ELSE FromIso(AppendTime(date_dict.end, 0))
    ELSE ParseStart(date_dict) + SecondsPerDay

\* lines 151-160
ParseEnd(date_dict) ==
    IF date_dict.end # None
    THEN IF HasT(date_dict.end)
         THEN FromIso(date_dict.end)
         ELSE FromIso(AppendTime(date_dict.end, EndOfDay))
    ELSE ParseStart(date_dict) + SecondsPerDay

Failure == [ok |-> FALSE, start_dt |-> 0, end_dt |-> 0]

_parse_notion_date(date_dict) ==
    IF ParseRaises(date_dict)
    THEN Failure
    ELSE [ok |-> TRUE, start_dt |-> ParseStart(date_dict), end_dt |-> ParseEnd(date_dict)]

(***************************************************************************)
(* The remote services.                                                    *)
(***************************************************************************)
TitleProp(parts) == [type |-> "title", title |-> parts]
DateProp(d) == [type |-> "date", date |-> d]
SelectProp(v) == [type |-> "select", select |-> v]
StatusProp(v) == [type |-> "status", status |-> v]
RelationProp(ids) == [type |-> "relation", relation |-> ids]
RichTextProp(parts) == [type |-> "rich_text", rich_text |-> parts]

Iso(d, t) == [date |-> d, time |-> t]
DateRange(s, e) == [start |-> s, end |-> e]

\* datetime.isoformat() of a datetime
IsoFormat(dt) == Iso(dt \div SecondsPerDay, dt % SecondsPerDay)

\* dict.get(k) on the calendar mapping
MapGet(map, k) == IF k \in DOMAIN map THEN map[k] ELSE NoneStr

\* The domain pages of the workspace: titled under "Name", titled under
\* "Title", or with a "Name" that is no title.
DomainPages ==
    { [NoProps EXCEPT !["Name"] = TitleProp(<<"Work">>)],
      [NoProps EXCEPT !["Title"] = TitleProp(<<"Ho", "me">>)],
      [NoProps EXCEPT !["Name"] = RichTextProp(<<"Work">>)] }

DomainIds == {"dom1"}

\* Answers of notion.pages.retrieve(domain_id): an exception, or the domain page.
RetrieveRaises == [raises |-> TRUE, properties |-> NoProps]
DomainPage(props) == [raises |-> FALSE, properties |-> props]
RetrieveOutcomes(doms, domain_id) ==
    IF domain_id \in DOMAIN doms
    THEN {RetrieveRaises, DomainPage(doms[domain_id])}
    ELSE {RetrieveRaises}

\* The id Google Calendar assigns to a new event: an opaque string, different
\* from the id of every event there is (here, the page of the backlink and
\* the count of the events that carry it).
NewEventId(evs, page) ==
    "evt" \o ToString(page.id) \o "_"
          \o ToString(Cardinality({e \in evs : e.page = page.id}) + 1)

(***************************************************************************)
(* sync_notion_to_calendar: the steps of one loop iteration.               *)
(***************************************************************************)
Call(op, i, page, target, cal, ok, res, stamp, body) ==
    [op |-> op, task |-> i, page |-> page, target |-> target, cal |-> cal,
     ok |-> ok, res |-> res, stamp |-> stamp, body |-> body]

\* Faulty variant of FilterSkips: the status is not looked at.
FilterSkipsDueOnly(props) == props.due = None

\* line 176
FilterSkips(props) == props.status = "Completed" \/ props.due = None

\* lines 179-189: the domain name, from the answer of pages.retrieve
ResolveDomainName(props, outcome) ==
    IF Truthy(props.domain_id) /\ ~outcome.raises
    THEN LET title_prop == Or(outcome.properties["Name"], outcome.properties["Title"])
         IN  IF title_prop # None /\ title_prop.type = "title"
             THEN Join(title_prop.title)
             ELSE NoneStr
    ELSE NoneStr

RetrieveCalls(i, page, props, outcome) ==
    IF Truthy(props.domain_id)
    THEN <<Call("retrieve", i, page.id, props.domain_id, NoneStr, ~outcome.raises,
                ResolveDomainName(props, outcome), NoTime, None)>>
    ELSE <<>>

\* line 191: calendar_map.get(domain_name or "")
CalendarId(map, domain_name) ==
    MapGet(map, IF Truthy(domain_name) THEN domain_name ELSE "")

EventBody(page, props, parsed) ==
    [summary |-> props.name,
     start |-> IsoFormat(parsed.start_dt),
     end |-> IsoFormat(parsed.end_dt),
     description |-> page.id]

WriteBackCall(i, page, gcal_id_new, wb_ok, t) ==
    Call("pages.update", i, page.id, NoneStr, NoneStr, wb_ok, gcal_id_new, t, None)

\* Faulty variant of Upsert: the event id of the task is ignored.
UpsertAlwaysInsert(i, page, props, calendar_id, body, ok, wb_ok, new_id, t) ==
    <<Call("insert", i, page.id, NoneStr, calendar_id, ok, IF ok THEN new_id ELSE NoneStr,
           NoTime, body)>>
    \o (IF ok THEN <<WriteBackCall(i, page, new_id, wb_ok, t)>> ELSE <<>>)

\* Faulty variant of Upsert: the new event id is not written back.
UpsertNoWriteBack(i, page, props, calendar_id, body, ok, wb_ok, new_id, t) ==
    IF Truthy(props.gcal_id)
    THEN <<Call("update", i, page.id, props.gcal_id, calendar_id, ok, NoneStr, NoTime, body)>>
    ELSE <<Call("insert", i, page.id, NoneStr, calendar_id, ok,
                IF ok THEN new_id ELSE NoneStr, NoTime, body)>>

\* Faulty variant of Upsert: the update path writes back too.
UpsertWriteBackBoth(i, page, props, calendar_id, body, ok, wb_ok, new_id, t) ==
    IF Truthy(props.gcal_id)
    THEN <<Call("update", i, page.id, props.gcal_id, calendar_id, ok, NoneStr, NoTime, body)>>
         \o (IF ok THEN <<WriteBackCall(i, page, props.gcal_id, wb_ok, t)>> ELSE <<>>)
    ELSE <<Call("insert", i, page.id, NoneStr, calendar_id, ok,
                IF ok THEN new_id ELSE NoneStr, NoTime, body)>>
         \o (IF ok THEN <<WriteBackCall(i, page, new_id, wb_ok, t)>> ELSE <<>>)

\* lines 212-244: the calls of the upsert, in the order they are issued.  ok says
\* whether the calendar call returns, wb_ok whether notion.pages.update returns.
Upsert(i, page, props, calendar_id, body, ok, wb_ok, new_id, t) ==
    IF Truthy(props.gcal_id)
    THEN <<Call("update", i, page.id, props.gcal_id, calendar_id, ok, NoneStr, NoTime, body)>>
    ELSE <<Call("insert", i, page.id, NoneStr, calendar_id, ok,
                IF ok THEN new_id ELSE NoneStr, NoTime, body)>>
         \o (IF ok THEN <<WriteBackCall(i, page, new_id, wb_ok, t)>> ELSE <<>>)

\* Faulty variant of AfterUpsert: the exception of a failed call ends the run.
AfterUpsertAborts(cs) == IF \E k \in 1..Len(cs) : ~cs[k].ok THEN "crashed" ELSE "running"

\* lines 245-247: the exception of a failed call is caught and printed
AfterUpsert(cs) == "running"

\* Notion's record of a page after the calls cs.
WrittenBack(page, cs) ==
    LET wb == {k \in 1..Len(cs) : cs[k].op = "pages.update" /\ cs[k].ok /\ cs[k].page = page.id}
    IN  IF wb = {} THEN page
        ELSE LET c == cs[CHOOSE k \in wb : TRUE]
             IN  [page EXCEPT !.properties["GCal Event ID"] = RichTextProp(<<c.res>>),
                              !.properties["Last Synced"] =
                                   DateProp(DateRange(IsoFormat(c.stamp), None))]

Count(cs, P(_)) == Cardinality({k \in 1..Len(cs) : P(cs[k])})

(***************************************************************************)
(* The states the sync starts from: the task database, the calendar        *)
(* mapping of DOMAIN_CALENDAR_MAPPING, and the events already on the       *)
(* calendars.                                                              *)
(***************************************************************************)
TaskWith(st, du, dm, gc) ==
    [NoProps EXCEPT !["Name"] = TitleProp(<<"Task">>), !["Status"] = st,
                    !["Due Date"] = du, !["Domain"] = dm, !["GCal Event ID"] = gc]

Open == StatusProp([name |-> "In progress"])
Completed == SelectProp([name |-> "Completed"])
DueDay == DateProp(DateRange(Iso(1, NoTime), None))
DueNoStart == DateProp(DateRange(None, Iso(1, NoTime)))
Dom == RelationProp(<<[id |-> "dom1"]>>)
NoEvent == RichTextProp(<<>>)
Event0 == RichTextProp(<<"evt0">>)

\* The task records of the database: open tasks on the create and on the update
\* path, tasks that fail one gate each, and a task whose Status select is empty.
TaskProps ==
    { TaskWith(Open, DueDay, Dom, NoEvent),
      TaskWith(Open, DueDay, Dom, Event0),
      TaskWith(Open, DueDay, None, NoEvent),
      TaskWith(Open, DateProp(None), Dom, Event0),
      TaskWith(Open, DueNoStart, Dom, NoEvent),
      TaskWith(Completed, DueDay, Dom, Event0),
      TaskWith(SelectProp(None), DueDay, Dom, NoEvent) }

PageIds == 1..NumPages

CalendarMaps ==
    { ("Work" :> "cal_work") @@ ("" :> "cal_default"),
      ("Home" :> "cal_home") }

InitDriver ==
    /\ \E ps \in [PageIds -> TaskProps] :
          db = [p \in PageIds |-> [id |-> p, properties |-> ps[p]]]
    /\ db0 = db
    /\ domains \in [DomainIds -> DomainPages]
    /\ calendar_map \in CalendarMaps
    /\ pc = "idle"
    /\ tasks = <<>>
    /\ idx = 1
    /\ calls = <<>>
    /\ raised_earlier = FALSE
    /\ runs = 0
    /\ now = 0
    /\ faults = 0
    /\ events = { [id |-> ExtractGcalId(db[p].properties), page |-> p] :
                    p \in {q \in PageIds : Truthy(ExtractGcalId(db[q].properties))} }
    /\ insert_calls = [p \in PageIds |-> 0]
    /\ insert_ok = [p \in PageIds |-> 0]
    /\ insert_failed = [p \in PageIds |-> FALSE]
    /\ writeback_lost = [p \in PageIds |-> FALSE]

InitFnOff == fn = "off" /\ fn_in = None /\ fn_out = None

Init == InitDriver /\ InitFnOff

(***************************************************************************)
(* sync_notion_to_calendar.                                                *)
(***************************************************************************)
\* line 167: notion.databases.query.  The clock read by utcnow advances from
\* one run to the next.
StartRun ==
    /\ pc \in {"idle", "crashed"}
    /\ runs < MaxRuns
    /\ pc' = "running"
    /\ tasks' = [i \in 1..NumPages |-> db[i]]
    /\ idx' = 1
    /\ calls' = <<>>
    /\ raised_earlier' = FALSE
    /\ runs' = runs + 1
    /\ now' = now + 1
    /\ UNCHANGED <<db, db0, domains, calendar_map, faults, events, insert_calls, insert_ok,
                   insert_failed, writeback_lost>>

InLoop == pc = "running" /\ idx <= Len(tasks)

\* line 169: _get_task_properties raises, outside every try: the run ends
ExtractCrash ==
    /\ InLoop
    /\ ExtractRaises(tasks[idx].properties)
    /\ pc' = "crashed"
    /\ UNCHANGED <<db, db0, domains, calendar_map, tasks, idx, calls, raised_earlier, runs, now,
                   faults, events, insert_calls, insert_ok, insert_failed, writeback_lost>>

\* the number of calls among cs that raised
FaultsIn(cs) == Cardinality({k \in 1..Len(cs) : ~cs[k].ok})

\* an upsert or write-back call among cs raised
RaisedIn(cs) ==
    \E k \in 1..Len(cs) : cs[k].op \in {"insert", "update", "pages.update"} /\ ~cs[k].ok

\* the iteration ends after the calls cs, none of them an upsert
SkipWith(cs) ==
    /\ calls' = cs
    /\ raised_earlier' = (raised_earlier \/ RaisedIn(calls))
    /\ faults' = faults + FaultsIn(cs)
    /\ faults' <= MaxFaults
    /\ idx' = idx + 1
    /\ UNCHANGED <<db, db0, domains, calendar_map, pc, tasks, runs, now, events,
                   insert_calls, insert_ok, insert_failed, writeback_lost>>

\* lines 176-177
SkipFiltered ==
    /\ InLoop
    /\ ~ExtractRaises(tasks[idx].properties)
    /\ FilterSkips(_get_task_properties(tasks[idx]))
    /\ SkipWith(<<>>)

PastFilter ==
    /\ InLoop
    /\ ~ExtractRaises(tasks[idx].properties)
    /\ ~FilterSkips(_get_task_properties(tasks[idx]))

\* lines 179-194
SkipUnmapped ==
    /\ PastFilter
    /\ \E outcome \in RetrieveOutcomes(domains, _get_task_properties(tasks[idx]).domain_id) :
         LET page == tasks[idx]
             props == _get_task_properties(page)
             calendar_id == CalendarId(calendar_map, ResolveDomainName(props, outcome))
         IN  /\ ~Truthy(calendar_id)
             /\ SkipWith(RetrieveCalls(idx, page, props, outcome))

\* lines 196-199
SkipBadDate ==
    /\ PastFilter
    /\ \E outcome \in RetrieveOutcomes(domains, _get_task_properties(tasks[idx]).domain_id) :
         LET page == tasks[idx]
             props == _get_task_properties(page)
             calendar_id == CalendarId(calendar_map, ResolveDomainName(props, outcome))
         IN  /\ Truthy(calendar_id)
             /\ ~_parse_notion_date(props.due).ok
             /\ SkipWith(RetrieveCalls(idx, page, props, outcome))

\* lines 200-247, for the task at idx, with the answers of the remote services
UpsertStep(outcome, ok, wb_ok) ==
    LET page == tasks[idx]
        props == _get_task_properties(page)
        calendar_id == CalendarId(calendar_map, ResolveDomainName(props, outcome))
        parsed == _parse_notion_date(props.due)
        cs == Upsert(idx, page, props, calendar_id, EventBody(page, props, parsed),
                     ok, wb_ok, NewEventId(events, page), now)
        Ins(c) == c.op = "insert"
        InsOk(c) == c.op = "insert" /\ c.ok
        InsFailed(c) == c.op = "insert" /\ ~c.ok
        WbFailed(c) == c.op = "pages.update" /\ ~c.ok
    IN  /\ Truthy(calendar_id)
        /\ parsed.ok
        /\ calls' = RetrieveCalls(idx, page, props, outcome) \o cs
        /\ faults' = faults + FaultsIn(calls')
        /\ faults' <= MaxFaults
        /\ raised_earlier' = (raised_earlier \/ RaisedIn(calls))
        /\ db' = [db EXCEPT ![page.id] = WrittenBack(db[page.id], cs)]
        /\ events' = events \cup { [id |-> cs[k].res, page |-> page.id] :
                                     k \in {j \in 1..Len(cs) : InsOk(cs[j])} }
        /\ insert_calls' = [insert_calls EXCEPT ![page.id] = @ + Count(cs, Ins)]
        /\ insert_ok' = [insert_ok EXCEPT ![page.id] = @ + Count(cs, InsOk)]
        /\ insert_failed' = [insert_failed EXCEPT ![page.id] = @ \/ Count(cs, InsFailed) > 0]
        /\ writeback_lost' = [writeback_lost EXCEPT ![page.id] = @ \/ Count(cs, WbFailed) > 0]
        /\ pc' = AfterUpsert(cs)
        /\ idx' = idx + 1
        /\ UNCHANGED <<db0, domains, calendar_map, tasks, runs, now>>

\* lines 213-219
UpdateEvent ==
    /\ PastFilter
    /\ Truthy(_get_task_properties(tasks[idx]).gcal_id)
    /\ \E outcome \in RetrieveOutcomes(domains, _get_task_properties(tasks[idx]).domain_id), ok \in BOOLEAN : UpsertStep(outcome, ok, TRUE)

\* lines 220-244
CreateEvent ==
    /\ PastFilter
    /\ ~Truthy(_get_task_properties(tasks[idx]).gcal_id)
    /\ \E outcome \in RetrieveOutcomes(domains, _get_task_properties(tasks[idx]).domain_id), ok \in BOOLEAN, wb_ok \in BOOLEAN :
         /\ ~ok => wb_ok
         /\ UpsertStep(outcome, ok, wb_ok)

\* line 168: the loop is over
FinishRun ==
    /\ pc = "running"
    /\ idx > Len(tasks)
    /\ pc' = "idle"
    /\ UNCHANGED <<db, db0, domains, calendar_map, tasks, idx, calls, raised_earlier, runs, now,
                   faults, events, insert_calls, insert_ok, insert_failed, writeback_lost>>

Next ==
    \/ StartRun /\ UNCHANGED fn_vars
    \/ ExtractCrash /\ UNCHANGED fn_vars
    \/ SkipFiltered /\ UNCHANGED fn_vars
    \/ SkipUnmapped /\ UNCHANGED fn_vars
    \/ SkipBadDate /\ UNCHANGED fn_vars
    \/ UpdateEvent /\ UNCHANGED fn_vars
    \/ CreateEvent /\ UNCHANGED fn_vars
    \/ FinishRun /\ UNCHANGED fn_vars

Spec == Init /\ [][Next]_vars

(***************************************************************************)
(* The two pure functions on their own: the input is drawn from a bounded  *)
(* set, one step applies the function.                                     *)
(***************************************************************************)
InitDriverOff ==
    /\ db = <<>> /\ db0 = <<>> /\ domains = <<>> /\ calendar_map = <<>>
    /\ pc = "off" /\ tasks = <<>> /\ idx = 1 /\ calls = <<>> /\ raised_earlier = FALSE
    /\ runs = 0 /\ now = 0 /\ faults = 0 /\ events = {}
    /\ insert_calls = <<>> /\ insert_ok = <<>>
    /\ insert_failed = <<>> /\ writeback_lost = <<>>

\* The values of the due-date property stored under the n-th accepted key:
\* missing, empty, populated (with a start that names the key), or not a date.
DueInputs(n) == { None, DateProp(None), DateProp(DateRange(Iso(n, NoTime), None)),
                  RichTextProp(<<"soon">>) }

ExtractInputs ==
    { [id |-> 1,
       properties |-> [NoProps EXCEPT !["Name"] = TitleProp(<<"Task">>), !["Status"] = st,
                                      !["Due Date"] = d1, !["Due date"] = d2, !["Due"] = d3]] :
        st \in {StatusProp([name |-> "In progress"]), SelectProp(None)},
        d1 \in DueInputs(1), d2 \in DueInputs(2), d3 \in DueInputs(3) }

InitExtract ==
    /\ InitDriverOff
    /\ fn = "extract"
    /\ fn_in \in ExtractInputs
    /\ fn_out = None

ApplyExtract ==
    /\ fn = "extract"
    /\ ~ExtractRaises(fn_in.properties)
    /\ fn' = "extracted"
    /\ fn_out' = _get_task_properties(fn_in)
    /\ UNCHANGED fn_in

ApplyExtractRaises ==
    /\ fn = "extract"
    /\ ExtractRaises(fn_in.properties)
    /\ fn' = "raised"
    /\ UNCHANGED <<fn_in, fn_out>>

NextExtract ==
    \/ ApplyExtract /\ UNCHANGED driver_vars
    \/ ApplyExtractRaises /\ UNCHANGED driver_vars

SpecExtract == InitExtract /\ [][NextExtract]_vars

IsoStrings == { Iso(d, t) : d \in 1..MaxDay, t \in {NoTime, 0, 32400, EndOfDay} }

ParseInputs == { DateRange(s, e) : s \in IsoStrings \cup {None}, e \in IsoStrings \cup {None} }

InitParse ==
    /\ InitDriverOff
    /\ fn = "parse"
    /\ fn_in \in ParseInputs
    /\ fn_out = None

ApplyParse ==
    /\ fn = "parse"
    /\ ~ParseRaises(fn_in)
    /\ fn' = "parsed"
    /\ fn_out' = _parse_notion_date(fn_in)
    /\ UNCHANGED fn_in

ApplyParseRaises ==
    /\ fn = "parse"
    /\ ParseRaises(fn_in)
    /\ fn' = "raised"
    /\ fn_out' = _parse_notion_date(fn_in)
    /\ UNCHANGED fn_in

NextParse ==
    \/ ApplyParse /\ UNCHANGED driver_vars
    \/ ApplyParseRaises /\ UNCHANGED driver_vars

SpecParse == InitParse /\ [][NextParse]_vars

(***************************************************************************)
(* Properties.  They read the remote calls of the last finished iteration  *)
(* (calls), the records as fetched (tasks) and Notion's records (db).      *)
(***************************************************************************)
CallIdx == 1..Len(calls)
IsCalendarCall(c) == c.op \in {"insert", "update"}
IsUpsertCall(c) == c.op \in {"insert", "update", "pages.update"}

\* the task of the last finished iteration, the one calls belongs to
Processed == { i \in 1..Len(tasks) : i = idx - 1 }
Extractable(i) == ~ExtractRaises(tasks[i].properties)
StatusOf(i) == ExtractStatus(tasks[i].properties)
DueOf(i) == ExtractDue(tasks[i].properties)
GcalOf(i) == ExtractGcalId(tasks[i].properties)
CallsOf(i, ops) == { k \in CallIdx : calls[k].task = i /\ calls[k].op \in ops }

\* the domain name the lookup of task i resolved to, NoneStr when there was none
ResolvedName(i) ==
    IF CallsOf(i, {"retrieve"}) = {} THEN NoneStr
    ELSE calls[CHOOSE k \in CallsOf(i, {"retrieve"}) : TRUE].res

PassesGates(i) ==
    /\ Extractable(i)
    /\ StatusOf(i) # "Completed" /\ DueOf(i) # None
    /\ Truthy(MapGet(calendar_map, IF Truthy(ResolvedName(i)) THEN ResolvedName(i) ELSE ""))
    /\ DueOf(i).start # None

\* C1: a fetched task whose status is "Completed" or whose due is null gets no
\* calendar call, neither insert nor update, whatever its other fields are.
C1_NoCallForFiltered ==
    \A i \in 1..Len(tasks) :
        (Extractable(i) /\ (StatusOf(i) = "Completed" \/ DueOf(i) = None))
            => CallsOf(i, {"insert", "update"}) = {}

C1_Witness ==
    /\ runs >= 1
    /\ calls = <<>>
    /\ \E i \in Processed :
         /\ Extractable(i) /\ StatusOf(i) = "Completed" /\ DueOf(i) # None
         /\ Truthy(GcalOf(i))
         /\ ExtractDomainId(tasks[i].properties) # NoneStr

\* C2: a calendar call or a write-back is issued for a task only if its domain
\* reference resolved to a name that is a key of the calendar mapping and the
\* normalization of its due range succeeded.
C2_OnlyMappedAndDated ==
    \A k \in CallIdx :
        IsUpsertCall(calls[k]) =>
            /\ \E r \in CallsOf(calls[k].task, {"retrieve"}) :
                  /\ calls[r].ok /\ calls[r].res # NoneStr
                  /\ calls[r].res \in DOMAIN calendar_map
            /\ DueOf(calls[k].task) # None /\ DueOf(calls[k].task).start # None

\* C3: a task that has an event id before the first run keeps that id on its
\* record through every run, and each run in which it passes the filter, domain
\* and date gates issues exactly one update call, addressed to that id, and no
\* insert call.
C3_UpdateIdempotent ==
    \A p \in PageIds :
        Truthy(ExtractGcalId(db0[p].properties)) =>
            /\ ExtractGcalId(db[p].properties) = ExtractGcalId(db0[p].properties)
            /\ \A i \in Processed :
                  (tasks[i].id = p /\ PassesGates(i)) =>
                      /\ Cardinality(CallsOf(i, {"update"})) = 1
                      /\ \A k \in CallsOf(i, {"update"}) :
                            calls[k].target = ExtractGcalId(db0[p].properties)
                      /\ CallsOf(i, {"insert"}) = {}

C3_Witness ==
    /\ pc = "idle" /\ runs = MaxRuns
    /\ \E i \in Processed :
         /\ Truthy(ExtractGcalId(db0[tasks[i].id].properties))
         /\ PassesGates(i)
         /\ \E k \in CallsOf(i, {"update"}) : calls[k].target = "evt0"

\* C4: a successful insert is followed at once by one update of the same task's
\* record, which sets the event id to the non-empty id the insert assigned and
\* sets a last-synced timestamp; no other record is updated.
C4_CreateWritesBack ==
    /\ \A k \in CallIdx :
          (calls[k].op = "insert" /\ calls[k].ok) =>
              /\ ~Truthy(GcalOf(calls[k].task))
              /\ Truthy(calls[k].res)
              /\ k + 1 \in CallIdx
              /\ calls[k + 1].op = "pages.update"
              /\ calls[k + 1].page = tasks[calls[k].task].id
              /\ calls[k + 1].res = calls[k].res
              /\ calls[k + 1].stamp # NoTime
              /\ Cardinality(CallsOf(calls[k].task, {"pages.update"})) = 1
    /\ \A k \in CallIdx :
          calls[k].op = "pages.update" =>
              /\ k - 1 \in CallIdx
              /\ calls[k - 1].op = "insert" /\ calls[k - 1].ok
              /\ calls[k - 1].task = calls[k].task

C4_Witness ==
    \E k \in CallIdx :
        /\ calls[k].op = "pages.update" /\ calls[k].ok
        /\ ExtractGcalId(db[calls[k].page].properties) = calls[k].res
        /\ Truthy(calls[k].res)
        /\ db[calls[k].page].properties["Last Synced"] # None

\* C5: a step in which the insert, update or write-back call of a task raises
\* ends like a step in which it returns: the run goes on with the next task of
\* the same fetched list under the same mapping.
C5_FailureIsolated ==
    [][ (/\ pc = "running"
         /\ \E k \in 1..Len(calls') :
               calls'[k].task = idx /\ IsUpsertCall(calls'[k]) /\ ~calls'[k].ok)
        => (/\ pc' = "running"
            /\ idx' = idx + 1
            /\ tasks' = tasks
            /\ calendar_map' = calendar_map) ]_vars

C5_Witness ==
    /\ raised_earlier
    /\ \E k \in CallIdx : IsCalendarCall(calls[k]) /\ calls[k].ok

C7_LastSyncedEveryTime ==
    \A k \in CallIdx :
        (IsCalendarCall(calls[k]) /\ calls[k].ok) =>
            \E j \in CallsOf(calls[k].task, {"pages.update"}) : calls[j].stamp # NoTime

\* C8: for a range with a start the interval starts at the given start (00:00:00
\* of a date-only start) and ends 24 hours later when end is absent, at 23:59:59
\* of a date-only end, and at the given end when it has a time; a range with no
\* start yields a failure.
C8_Normalized ==
    fn \in {"parsed", "raised"} =>
        IF fn_in.start = None
        THEN fn = "raised" /\ ~fn_out.ok
        ELSE LET start == fn_in.start.date * 86400
                            + (IF fn_in.start.time = NoTime THEN 0 ELSE fn_in.start.time)
             IN  /\ fn = "parsed" /\ fn_out.ok
                 /\ fn_out.start_dt = start
                 /\ fn_in.end = None => fn_out.end_dt = start + 24 * 3600
                 /\ (fn_in.end # None /\ fn_in.end.time = NoTime)
                       => fn_out.end_dt = fn_in.end.date * 86400 + 23 * 3600 + 59 * 60 + 59
                 /\ (fn_in.end # None /\ fn_in.end.time # NoTime)
                       => fn_out.end_dt = fn_in.end.date * 86400 + fn_in.end.time

C8_Witness ==
    /\ fn = "parsed"
    /\ fn_in.start = Iso(1, NoTime) /\ fn_in.end = Iso(2, NoTime)
    /\ fn_out.start_dt = 86400 /\ fn_out.end_dt = 3 * 86400 - 1

\* The due date read as the first populated date among the three keys.
ExtractDueFirstPopulated(props) ==
    LET Pop(k) == props[k] # None /\ props[k].type = "date" /\ props[k].date # None
    IN  IF Pop("Due Date") THEN props["Due Date"].date
        ELSE IF Pop("Due date") THEN props["Due date"].date
        ELSE IF Pop("Due") THEN props["Due"].date
        ELSE None

\* C9: the extracted due is the date value of the first of "Due Date",
\* "Due date", "Due" that is date-typed and populated, and null only when none
\* of the three is.
C9_DueFirstPopulated ==
    fn = "extracted" => fn_out.due = ExtractDueFirstPopulated(fn_in.properties)

\* C10 as stated: as long as no write-back of a task was lost, at most one
\* insert call is ever issued for it.
C10_OneInsertCall ==
    \A p \in PageIds : ~writeback_lost[p] => insert_calls[p] <= 1

\* C10 amended: as long as no write-back of a task was lost, at most one insert
\* call for it succeeds, and the runs after it address the recorded id; a second
\* insert call is issued only after an insert that raised or a lost write-back.
C10_OneEventPerTask ==
    \A p \in PageIds :
        /\ ~writeback_lost[p] => insert_ok[p] <= 1
        /\ (~writeback_lost[p] /\ insert_ok[p] = 1) =>
               /\ Cardinality({e \in events : e.page = p}) = 1
               /\ \A e \in events : e.page = p => ExtractGcalId(db[p].properties) = e.id
        /\ insert_calls[p] >= 2 => (writeback_lost[p] \/ insert_failed[p])

C10_Witness ==
    /\ runs = MaxRuns
    /\ \E k \in CallIdx :
         /\ calls[k].op = "update"
         /\ insert_ok[calls[k].page] = 1
         /\ ~writeback_lost[calls[k].page]
         /\ [id |-> calls[k].target, page |-> calls[k].page] \in events

====
